---- MODULE Spec2Model ----
(***************************************************************************)
(* Model of the QProvisioner script                                        *)
(* (src/core/modules/qprovisioner/scripts/provision.py): main() surveys    *)
(* the declared nodes, then either forms a new cluster (create_cluster)    *)
(* or reconciles an existing one (handle_existing_cluster).  The storage   *)
(* cluster and the secret store are the environment: every query answer    *)
(* and every command outcome is drawn from them.                           *)
(***************************************************************************)
EXTENDS Integers, Sequences, FiniteSets, TLC

\* ------------------------------------------------------------------ bounds
\* Number of declared primary addresses (cluster_node_ip_addresses).
MaxPrimary == 2
\* Largest number of declared swing addresses (swing_node_ip_addresses).
MaxSwing == 1
\* Largest soft capacity limit (TB) declared, stored or in effect.
MaxCap == 2

\* ------------------------------------------------------- values and helpers
Min(a, b) == IF a < b THEN a ELSE b

\* ips[:n] of Python, n >= 0.
Take(s, n) == SubSeq(s, 1, Min(n, Len(s)))

Range(s) == {s[k] : k \in 1..Len(s)}

\* A fault-domain-tagged node address of the primary / of the swing pool.
PAddr(k) == <<"p", k>>
SAddr(k) == <<"s", k>>

\* Template variable cluster_node_ip_addresses, already split().
cluster_node_ip_addresses == [k \in 1..MaxPrimary |-> PAddr(k)]
\* Template variable clustering_node_ip_address: the node every qq command
\* without an explicit --host goes to.
clustering_node_ip_address == PAddr(1)

AllSwing == [k \in 1..MaxSwing |-> SAddr(k)]
Nodes == Range(cluster_node_ip_addresses) \cup Range(AllSwing)

\* What node_state_get prints for a node: ACTIVE (in quorum), UNCONFIGURED,
\* REMOVED, or anything else (here PAUSED: known to the cluster, not serving).
NodeStatus == {"ACTIVE", "UNCONFIGURED", "REMOVED", "PAUSED"}

\* Software revisions, as the characters of the revision_id line.
Rev751 == <<"7", ".", "5", ".", "1">>
Rev750 == <<"7", ".", "5", ".", "0">>
Rev7100 == <<"7", ".", "1", "0", ".", "0">>
\* A node whose `version` output has no revision_id line.
NoRevision == <<>>
Revisions == {Rev751, Rev750, Rev7100, NoRevision}

\* bool(s) of Python for a str: every non-empty string is true.
Truthy(s) == s # ""

\* One entry of the run's trace of calls and terminal observations.
Ev(op, nodes, val) == [op |-> op, nodes |-> nodes, val |-> val]

VARIABLES
    \* ---- template variables of the run (never assigned by the script)
    swing_node_ip_addresses,   \* sequence of swing addresses
    provision_swing_pool,      \* "true" or "false", a str
    config,                    \* ProvisioningConfig
    \* ---- the storage cluster
    nodeState,                 \* node -> NodeStatus
    nodeRev,                   \* node -> revision
    membership,                \* node list of the formed cluster
    clusterCap,                \* capacity clamp in effect (TB)
    clusterBuckets,            \* number of configured bucket URIs
    clusterNet,                \* frontend_networks of the network config
    netStatus,                 \* TRUE iff network status reports floating_addresses
    pending,                   \* commands accepted, not yet taken up
    reforming,                 \* command the quorum is re-forming for, or <<>>
    quorumId,                  \* number of quorums formed so far in this run
    \* ---- the secret store
    secret,                    \* secret name -> value
    \* ---- the script
    pc,
    failure,                   \* why the run raised, "" while it has not
    i,                         \* index of the running for loop
    probed,                    \* nodes whose readiness probe returned 200
    qfsd_version,
    node_version,              \* node -> revision it reported to the survey
    state_queries,             \* node_state_get calls of the surveys: <<ip, answer>>
    sv,                        \* lists of the running survey_node_state call
    in_quorum_nodes, out_of_quorum_nodes,
    in_quorum_swing_nodes, out_of_quorum_swing_nodes,
    um,                        \* arguments and locals of update_cluster_membership
    current_capacity_in_tb,    \* capacity read from the secret store, -1 before
    current_config,            \* network config read by maybe_update_floating_ips
    log,                       \* commands issued, secrets written, markers observed
    run,                       \* number of the run of the script, from 1
    created,                   \* TRUE once a run's create command has formed a cluster
    fromUnformed               \* TRUE if the first run started on an unformed cluster

tmplVars == <<swing_node_ip_addresses, provision_swing_pool, config>>
clusterVars == <<nodeState, nodeRev, membership, clusterCap, clusterBuckets,
                 clusterNet, netStatus, pending, reforming, quorumId>>
surveyVars == <<qfsd_version, node_version, state_queries, sv, in_quorum_nodes,
                out_of_quorum_nodes, in_quorum_swing_nodes,
                out_of_quorum_swing_nodes>>
vars == <<run, created, fromUnformed, tmplVars, clusterVars, secret, pc, failure, i, probed, surveyVars,
          um, current_capacity_in_tb, current_config, log>>

\* What node_state_get prints for node ip: a member answers ACTIVE only while
\* no quorum is being re-formed.
NodeStateOutput(ip) ==
    IF reforming # <<>> /\ nodeState[ip] = "ACTIVE" THEN "PAUSED"
    ELSE nodeState[ip]

\* ------------------------------------------------------------ pure helpers
Digits == {"0", "1", "2", "3", "4", "5", "6", "7", "8", "9"}

\* The `version` output line that carries revision_id, for a node at `rev`.
RevisionLine(rev) == <<"Q", "C", " ">> \o rev \o <<",">>

\* re.sub(r"[^0-9.]", "", line)
KeepDigitsAndDots(line) == SelectSeq(line, LAMBDA c : c \in Digits \cup {"."})

\* get_qfsd_version(ip), the command having succeeded: the filtered
\* revision_id line, "" if the output has none.
get_qfsd_version(rev) ==
    IF rev = NoRevision THEN <<>> ELSE KeepDigitsAndDots(RevisionLine(rev))

EmptySurvey ==
    [in_quorum_nodes |-> <<>>, unconfigured_nodes |-> <<>>,
     removed_nodes |-> <<>>, out_of_quorum_nodes |-> <<>>]

\* Mutant: a REMOVED node is counted out of quorum.
Classify_RemovedOutOfQuorum(s, ip, ok, out) ==
    IF ok /\ out = "ACTIVE" THEN
        [s EXCEPT !.in_quorum_nodes = Append(@, ip)]
    ELSE IF ok /\ out = "UNCONFIGURED" THEN
        [s EXCEPT !.unconfigured_nodes = Append(@, ip)]
    ELSE
        [s EXCEPT !.out_of_quorum_nodes = Append(@, ip)]

\* One iteration's classification in survey_node_state: `ok` is whether
\* node_state_get exited zero, `out` what it printed.
Classify(s, ip, ok, out) ==
    IF ~ok THEN
        [s EXCEPT !.out_of_quorum_nodes = Append(@, ip)]
    ELSE IF out = "ACTIVE" THEN
        [s EXCEPT !.in_quorum_nodes = Append(@, ip)]
    ELSE IF out = "UNCONFIGURED" THEN
        [s EXCEPT !.unconfigured_nodes = Append(@, ip)]
    ELSE IF out = "REMOVED" THEN
        [s EXCEPT !.removed_nodes = Append(@, ip)]
    ELSE
        [s EXCEPT !.out_of_quorum_nodes = Append(@, ip)]

\* What survey_node_state returns.
SurveyResult(s) == <<s.in_quorum_nodes, s.out_of_quorum_nodes>>

\* --------------------------------------------------------------- the inputs
MaxBuckets == 2

MemberCfgs ==
    [node_count : 0..(MaxPrimary + 1), swing_node_count : 0..MaxSwing,
     pool : {"true", "false"}]
RevCases == [Nodes -> Revisions]
CapCases ==
    {c \in [cap : 1..MaxCap, capSecret : 1..MaxCap, limit : 1..MaxCap] :
        c.capSecret <= c.cap}
BucketCases == [buckets : 0..MaxBuckets, uris : 1..MaxBuckets]

\* A frontend network entry of the cluster's network config.
NetEntry(id, name, flips, netmask) ==
    [id |-> id, name |-> name, floating_ip_ranges |-> flips, netmask |-> netmask]

\* Network configs a formed cluster starts with: no frontend network, one
\* without floating IPs, one with floating IPs, and two frontend networks.
NetConfigs ==
    {<<>>,
     <<NetEntry(1, "default", <<>>, "nm")>>,
     <<NetEntry(1, "default", <<"a", "b">>, "nm")>>,
     <<NetEntry(1, "default", <<"a", "b">>, "nm"),
       NetEntry(2, "second", <<>>, "nm2")>>}

NetCases ==
    [net : NetConfigs,
     flips : {<<>>, <<"a", "b">>, <<"b", "a">>},
     dev : {"true", "false"}]

BaseCase ==
    [m |-> [node_count |-> MaxPrimary, swing_node_count |-> 0, pool |-> "false"],
     r |-> [n \in Nodes |-> Rev751],
     c |-> [cap |-> 1, capSecret |-> 1, limit |-> 1],
     b |-> [buckets |-> 1, uris |-> 1],
     n |-> [net |-> <<>>, flips |-> <<>>, dev |-> "false"]]

\* A declared configuration that differs from the cluster in every dimension:
\* one primary node fewer, one bucket more, a larger capacity limit, the
\* floating IPs in another order.
ChangeAllCase ==
    [m |-> [node_count |-> MaxPrimary - 1, swing_node_count |-> 0, pool |-> "false"],
     r |-> [n \in Nodes |-> Rev751],
     c |-> [cap |-> 1, capSecret |-> 1, limit |-> MaxCap],
     b |-> [buckets |-> 1, uris |-> MaxBuckets],
     n |-> [net |-> <<NetEntry(1, "default", <<"a", "b">>, "nm")>>,
            flips |-> <<"b", "a">>, dev |-> "false"]]

\* The declared configuration and the cluster's stored facts a run starts
\* from: every group of inputs takes all its values, the others at BaseCase;
\* and the case in which every dimension has to change.
InputCases ==
    {ChangeAllCase} \cup
    {[BaseCase EXCEPT !.m = x] : x \in MemberCfgs}
    \cup {[BaseCase EXCEPT !.r = x] : x \in RevCases}
    \cup {[BaseCase EXCEPT !.c = x] : x \in CapCases}
    \cup {[BaseCase EXCEPT !.b = x] : x \in BucketCases}
    \cup {[BaseCase EXCEPT !.n = x] : x \in NetCases}

\* create_provisioning_config() for the input case `in`.
ConfigOf(in, swing) ==
    [node_count |-> in.m.node_count,
     node_ips_and_fault_domains |-> cluster_node_ip_addresses,
     swing_node_count |-> in.m.swing_node_count,
     swing_node_ip_addresses_and_fault_domains |-> swing,
     storage_uris |-> in.b.uris,
     soft_capacity_limit |-> in.c.limit,
     permanent_disk_count |-> 1,
     floating_ips |-> in.n.flips,
     netmask |-> "nm",
     dev_environment |-> in.n.dev]

\* The network status reports floating addresses for the config `net`.
HasFloatingIps(net) ==
    \E k \in 1..Len(net) : net[k].floating_ip_ranges # <<>>

\* Nodes the cluster counts as members, in declared order.
MembersOf(ns, swing) ==
    SelectSeq(cluster_node_ip_addresses \o swing,
              LAMBDA a : ns[a] \in {"ACTIVE", "PAUSED"})

Init ==
    \E nsw \in 0..MaxSwing, ns \in [Nodes -> NodeStatus], in \in InputCases :
        LET swing == Take(AllSwing, nsw)
            formed == MembersOf(ns, swing) # <<>>
        IN
        /\ \A a \in Nodes :
               a \notin Range(cluster_node_ip_addresses \o swing)
                   => ns[a] = "UNCONFIGURED"
        /\ swing_node_ip_addresses = swing
        /\ provision_swing_pool = in.m.pool
        /\ config = <<>>
        /\ nodeState = ns
        /\ nodeRev = in.r
        /\ membership = MembersOf(ns, swing)
        /\ clusterCap = IF formed THEN in.c.cap ELSE 0
        /\ clusterBuckets = IF formed THEN in.b.buckets ELSE 0
        /\ clusterNet = IF formed THEN in.n.net ELSE <<>>
        /\ netStatus = (formed /\ HasFloatingIps(in.n.net))
        /\ pending = <<>>
        /\ reforming = <<>>
        /\ quorumId = 0
        /\ secret =
               [node_count |->
                    Len(SelectSeq(MembersOf(ns, swing),
                                  LAMBDA a : a \in Range(cluster_node_ip_addresses))),
                permanent_disk_count |-> IF formed THEN 1 ELSE 0,
                soft_capacity_limit |-> IF formed THEN in.c.capSecret ELSE 0,
                provisioner_complete |-> 0]
        /\ pc = "wait_primary"
        /\ failure = ""
        /\ i = 1
        /\ probed = {}
        /\ qfsd_version = <<>>
        /\ node_version = [a \in Nodes |-> <<>>]
        /\ state_queries = <<>>
        /\ sv = EmptySurvey
        /\ in_quorum_nodes = <<>>
        /\ out_of_quorum_nodes = <<>>
        /\ in_quorum_swing_nodes = <<>>
        /\ out_of_quorum_swing_nodes = <<>>
        /\ um = <<>>
        /\ current_capacity_in_tb = -1
        /\ current_config = <<>>
        /\ log = <<>>
        /\ run = 1
        /\ created = FALSE
        /\ fromUnformed = ~formed

\* The script moves on to `next`.
Goto(next) == pc' = next /\ failure' = failure

\* Mutant: main swallows the error and goes on to signal completion.
Raise_Swallowed(why) == pc' = "signal" /\ failure' = why

\* raise ProvisioningError(...): nothing in main catches it, the process exits
\* non-zero.
Raise(why) == pc' = "failed" /\ failure' = why

\* ------------------------------------------------------------------- main()
\* wait_for_qfsd_installation: one probe of the node the loop is at.
ProbeNode(addresses, next) ==
    /\ i <= Len(addresses)
    /\ \E up \in BOOLEAN :
           IF up
           THEN /\ probed' = probed \cup {addresses[i]}
                /\ i' = IF i = Len(addresses) THEN 1 ELSE i + 1
                /\ Goto(IF i = Len(addresses) THEN next ELSE pc)
           ELSE UNCHANGED <<probed, i, pc, failure>>
    /\ UNCHANGED <<run, created, fromUnformed, tmplVars, clusterVars, secret, surveyVars, um,
                   current_capacity_in_tb, current_config, log>>

WaitPrimary ==
    /\ pc = "wait_primary"
    /\ ProbeNode(cluster_node_ip_addresses,
                 IF provision_swing_pool = "true"
                    /\ Len(swing_node_ip_addresses) > 0
                 THEN "wait_swing" ELSE "get_version")

WaitSwing ==
    /\ pc = "wait_swing"
    /\ ProbeNode(swing_node_ip_addresses, "get_version")

\* qfsd_version = get_qfsd_version(clustering_node_ip_address)
GetVersion ==
    /\ pc = "get_version"
    /\ \E ok \in BOOLEAN :
           IF ok
           THEN /\ qfsd_version' = get_qfsd_version(nodeRev[clustering_node_ip_address])
                /\ Goto("survey_primary")
           ELSE /\ Raise("command failed")
                /\ UNCHANGED qfsd_version
    /\ sv' = EmptySurvey
    /\ i' = 1
    /\ UNCHANGED <<run, created, fromUnformed, tmplVars, clusterVars, secret, probed, node_version, state_queries,
                   in_quorum_nodes, out_of_quorum_nodes, in_quorum_swing_nodes,
                   out_of_quorum_swing_nodes, um, current_capacity_in_tb, current_config, log>>

\* Mutant: only the major version is compared.
WrongRevision_MajorOnly(nv, qv) == Take(nv, 1) # Take(qv, 1)

\* if node_version != qfsd_version: raise ProvisioningError(...)
WrongRevision(nv, qv) == nv # qv

\* How a query run by run_command ends: exit status zero; a non-zero exit
\* (subprocess.CalledProcessError, which run_command turns into
\* ProvisioningError); or the per-call timeout expiring
\* (subprocess.TimeoutExpired, which run_command does not catch).
QueryOutcomes == {"ok", "failed", "timeout"}

\* The exception a query outcome raises out of run_command, "" for none.
RaisedBy(r) ==
    IF r = "failed" THEN "ProvisioningError"
    ELSE IF r = "timeout" THEN "TimeoutExpired"
    ELSE ""

\* The wait loops catch ProvisioningError (the membership loop also the
\* errors of parsing the answer) and nothing else.
PollSurvives(r) == RaisedBy(r) \in {"", "ProvisioningError"}

\* survey_node_state: `except ProvisioningError` around node_state_get.
SurveyCatches(r) == RaisedBy(r) \in {"", "ProvisioningError"}

\* One iteration of the for loop of survey_node_state over `addresses`: the
\* version query (its failure is not caught), the revision check, then the
\* node_state_get query and the classification of its answer.
SurveyNode(addresses) ==
    /\ i <= Len(addresses)
    /\ LET ip == addresses[i] IN
       \E vok \in BOOLEAN, r \in QueryOutcomes :
           IF ~vok
           THEN /\ Raise("command failed")
                /\ UNCHANGED <<node_version, state_queries, sv, i>>
           ELSE /\ node_version' =
                       [node_version EXCEPT ![ip] = get_qfsd_version(nodeRev[ip])]
                /\ IF WrongRevision(node_version'[ip], qfsd_version)
                   THEN /\ Raise("wrong qfsd revision")
                        /\ UNCHANGED <<state_queries, sv, i>>
                   ELSE /\ state_queries' =
                               Append(state_queries,
                                      <<ip, IF r = "ok" THEN NodeStateOutput(ip)
                                            ELSE IF r = "failed" THEN "error"
                                            ELSE "timeout">>)
                        /\ IF SurveyCatches(r)
                           THEN /\ sv' = Classify(sv, ip, r = "ok",
                                                  NodeStateOutput(ip))
                                /\ i' = i + 1
                                /\ Goto(pc)
                           ELSE /\ Raise("status query timeout")
                                /\ UNCHANGED <<sv, i>>
    /\ UNCHANGED <<run, created, fromUnformed, tmplVars, clusterVars, secret, probed, qfsd_version,
                   in_quorum_nodes, out_of_quorum_nodes, in_quorum_swing_nodes,
                   out_of_quorum_swing_nodes, um, current_capacity_in_tb,
                   current_config, log>>

SurveyPrimaryNode ==
    /\ pc = "survey_primary"
    /\ SurveyNode(cluster_node_ip_addresses)

\* Mutant: a single out-of-quorum node is tolerated.
MustAbort_MoreThanOne(out_of_quorum) == Len(out_of_quorum) > 1

\* if out_of_quorum_nodes: raise / if out_of_quorum_swing_nodes: raise
MustAbort(out_of_quorum) == out_of_quorum # <<>>

\* The primary survey returns; main raises on out_of_quorum_nodes, and
\* surveys the swing pool only if swing addresses are declared.
SurveyPrimaryReturn ==
    /\ pc = "survey_primary"
    /\ i > Len(cluster_node_ip_addresses)
    /\ in_quorum_nodes' = SurveyResult(sv)[1]
    /\ out_of_quorum_nodes' = SurveyResult(sv)[2]
    /\ IF MustAbort(out_of_quorum_nodes')
       THEN Raise("out of quorum nodes")
       ELSE Goto(IF Len(swing_node_ip_addresses) > 0 THEN "survey_swing"
                 ELSE "decide")
    /\ sv' = EmptySurvey
    /\ i' = 1
    /\ UNCHANGED <<run, created, fromUnformed, tmplVars, clusterVars, secret, probed, qfsd_version,
                   node_version, state_queries, in_quorum_swing_nodes,
                   out_of_quorum_swing_nodes, um, current_capacity_in_tb, current_config, log>>

SurveySwingNode ==
    /\ pc = "survey_swing"
    /\ SurveyNode(swing_node_ip_addresses)

SurveySwingReturn ==
    /\ pc = "survey_swing"
    /\ i > Len(swing_node_ip_addresses)
    /\ in_quorum_swing_nodes' = SurveyResult(sv)[1]
    /\ out_of_quorum_swing_nodes' = SurveyResult(sv)[2]
    /\ IF MustAbort(out_of_quorum_swing_nodes')
       THEN Raise("out of quorum nodes")
       ELSE Goto("decide")
    /\ sv' = EmptySurvey
    /\ i' = 1
    /\ UNCHANGED <<run, created, fromUnformed, tmplVars, clusterVars, secret, probed, qfsd_version,
                   node_version, state_queries, in_quorum_nodes, out_of_quorum_nodes, um,
                   current_capacity_in_tb, current_config, log>>

\* Mutant: the decision looks at the primary pool only.
SelectsBootstrap_PrimaryOnly(iq, iqs) == iq = <<>>

\* if not in_quorum_nodes and not in_quorum_swing_nodes
SelectsBootstrap(iq, iqs) == iq = <<>> /\ iqs = <<>>

\* The input cases whose cluster-side facts are the ones this run started from.
MatchingCases ==
    {in \in InputCases :
        /\ in.m.pool = provision_swing_pool
        /\ in.r = nodeRev
        /\ membership # <<>> =>
               /\ in.c.cap = clusterCap
               /\ in.c.capSecret = secret.soft_capacity_limit
               /\ in.b.buckets = clusterBuckets
               /\ in.n.net = clusterNet}

\* create_provisioning_config(): the values the template was rendered with.
\* They are the same in every run of one rendered script, so a run that
\* follows a crash reads the configuration the crashed run had.
create_provisioning_config ==
    IF config # <<>> THEN {config}
    ELSE {ConfigOf(in, swing_node_ip_addresses) : in \in MatchingCases}

\* config = create_provisioning_config(), then main's choice between
\* create_cluster(config) and handle_existing_cluster(...)
Decide ==
    /\ pc = "decide"
    /\ config' \in create_provisioning_config
    /\ IF SelectsBootstrap(in_quorum_nodes, in_quorum_swing_nodes)
       THEN /\ Goto("create_cluster")
            /\ log' = Append(log, Ev("call create_cluster", <<>>, 0))
       ELSE /\ Goto("he_login")
            /\ log' = Append(log, Ev("call handle_existing_cluster", <<>>, 0))
    /\ UNCHANGED <<run, created, fromUnformed, swing_node_ip_addresses, provision_swing_pool, clusterVars,
                   secret, i, probed, surveyVars, um, current_capacity_in_tb,
                   current_config>>

\* -------------------------------------------------- the cluster, as queried
Max(a, b) == IF a > b THEN a ELSE b

\* The cluster takes up the oldest accepted command: the quorum is abandoned.
ClusterTakeUp ==
    /\ pending # <<>>
    /\ reforming = <<>>
    /\ reforming' = <<Head(pending)>>
    /\ pending' = Tail(pending)
    /\ UNCHANGED <<run, created, fromUnformed, tmplVars, nodeState, nodeRev, membership, clusterCap,
                   clusterBuckets, clusterNet, netStatus, quorumId, secret, pc,
                   failure, i, probed, surveyVars, um, current_capacity_in_tb,
                   current_config, log>>

\* The new quorum forms with the command's change in effect.
ClusterFormQuorum ==
    /\ reforming # <<>>
    /\ LET c == reforming[1] IN
       /\ membership' =
              IF c.op = "modify_object_backed_cluster_membership"
              THEN c.nodes ELSE membership
       /\ nodeState' =
              IF c.op = "modify_object_backed_cluster_membership"
              THEN [a \in Nodes |->
                        IF a \in Range(c.nodes) THEN "ACTIVE"
                        ELSE IF a \in Range(membership) THEN "REMOVED"
                        ELSE nodeState[a]]
              ELSE nodeState
       /\ clusterCap' = IF c.op = "capacity_clamp_set" THEN c.val ELSE clusterCap
       /\ clusterBuckets' =
              IF c.op = "add_object_storage_uris"
              THEN Max(clusterBuckets, c.val) ELSE clusterBuckets
       /\ clusterNet' = IF c.op = "put_network" THEN c.nodes ELSE clusterNet
       /\ netStatus' = IF c.op = "put_network" THEN HasFloatingIps(c.nodes)
                       ELSE netStatus
    /\ reforming' = <<>>
    /\ quorumId' = quorumId + 1
    /\ UNCHANGED <<run, created, fromUnformed, tmplVars, nodeRev, pending, secret, pc, failure, i, probed,
                   surveyVars, um, current_capacity_in_tb, current_config, log>>

\* ------------------------------------------------------- shared procedures
\* qq_command(args) whose only effect on the script is its exit status: on
\* success the cluster accepts `cmd` and the script goes to `next`, on failure
\* run_command raises ProvisioningError, which nothing here catches.
QqMutate(cmd, next) ==
    /\ \E ok \in BOOLEAN :
           IF ok
           THEN /\ pending' = Append(pending, cmd)
                /\ log' = Append(log, cmd)
                /\ Goto(next)
           ELSE /\ Raise("command failed")
                /\ UNCHANGED <<pending, log>>
    /\ UNCHANGED <<run, created, fromUnformed, tmplVars, nodeState, nodeRev, membership, clusterCap,
                   clusterBuckets, clusterNet, netStatus, reforming, quorumId,
                   secret, i, probed, surveyVars, um, current_capacity_in_tb, current_config>>

\* qq_command(args) that changes nothing the model tracks (login, tunable,
\* monitoring configuration).
QqPlain(op, next) ==
    /\ \E ok \in BOOLEAN :
           IF ok
           THEN /\ log' = Append(log, Ev(op, <<>>, 0))
                /\ Goto(next)
           ELSE /\ Raise("command failed")
                /\ UNCHANGED log
    /\ UNCHANGED <<run, created, fromUnformed, tmplVars, clusterVars, secret, i, probed, surveyVars, um,
                   current_capacity_in_tb, current_config>>

\* update_secret(secret_id, value)
update_secret(name, value, next) ==
    /\ \E ok \in BOOLEAN :
           IF ok
           THEN /\ secret' = [secret EXCEPT ![name] = value]
                /\ log' = Append(log, Ev("update_secret", <<name>>, value))
                /\ Goto(next)
           ELSE /\ Raise("command failed")
                /\ UNCHANGED <<secret, log>>
    /\ UNCHANGED <<run, created, fromUnformed, tmplVars, clusterVars, i, probed, surveyVars, um,
                   current_capacity_in_tb, current_config>>

\* Mutant: the script goes on without waiting for the quorum.
wait_for_new_quorum_Skipped(next) ==
    /\ Goto(next)
    /\ UNCHANGED <<run, created, fromUnformed, tmplVars, clusterVars, secret, i, probed,
                   surveyVars, um, current_capacity_in_tb, current_config, log>>

\* One pass of the loop of wait_for_new_quorum: it breaks when node_state_get
\* on the clustering node exits zero and prints ACTIVE, else sleeps.
wait_for_new_quorum(next) ==
    /\ \E r \in QueryOutcomes :
           IF ~PollSurvives(r)
           THEN /\ Raise("timeout expired")
                /\ UNCHANGED log
           ELSE IF r = "ok" /\ NodeStateOutput(clustering_node_ip_address) = "ACTIVE"
           THEN /\ log' = Append(log, Ev("saw ACTIVE", <<>>, quorumId))
                /\ Goto(next)
           ELSE UNCHANGED <<log, pc, failure>>
    /\ UNCHANGED <<run, created, fromUnformed, tmplVars, clusterVars, secret, i, probed, surveyVars, um,
                   current_capacity_in_tb, current_config>>

\* The network config apply_initial_floating_ips submits.
InitialNetwork(flips, netmask) == <<NetEntry(1, "default", flips, netmask)>>

\* apply_initial_floating_ips up to its PUT: returns at once on no floating IPs.
apply_initial_floating_ips(flips, netmask, wait, next) ==
    IF flips = <<>>
    THEN /\ Goto(next)
         /\ UNCHANGED <<run, created, fromUnformed, tmplVars, clusterVars, secret, i, probed, surveyVars,
                        um, current_capacity_in_tb, current_config, log>>
    ELSE QqMutate(Ev("put_network", InitialNetwork(flips, netmask), 0), wait)

\* One pass of the network-status loop of apply_initial_floating_ips.
WaitNetworkStatus(next) ==
    /\ \E r \in QueryOutcomes :
           IF ~PollSurvives(r)
           THEN /\ Raise("timeout expired")
                /\ UNCHANGED log
           ELSE IF r = "ok" /\ netStatus
           THEN /\ log' = Append(log, Ev("saw floating_addresses", <<>>, 0))
                /\ Goto(next)
           ELSE UNCHANGED <<log, pc, failure>>
    /\ UNCHANGED <<run, created, fromUnformed, tmplVars, clusterVars, secret, i, probed, surveyVars, um,
                   current_capacity_in_tb, current_config>>

\* ---------------------------------------------------------- create_cluster
\* Mutant: the last of the first node_count addresses is left out.
NewNodes_DropLast(cfg) ==
    Take(cfg.node_ips_and_fault_domains, cfg.node_count - 1)

\* new_nodes = ips_and_fault_domains[: config.node_count]
NewNodes(cfg) == Take(cfg.node_ips_and_fault_domains, cfg.node_count)

\* create_cluster up to the create_object_backed_cluster command, which forms
\* the cluster before it returns.
CreateCluster ==
    /\ pc = "create_cluster"
    /\ IF config.node_count = 0
       THEN /\ Goto("signal")
            /\ UNCHANGED <<nodeState, membership, clusterCap, clusterBuckets,
                           quorumId, log>>
       ELSE \E ok \in BOOLEAN :
            IF ok
            THEN /\ nodeState' = [a \in Nodes |->
                                      IF a \in Range(NewNodes(config))
                                      THEN "ACTIVE" ELSE nodeState[a]]
                 /\ membership' = NewNodes(config)
                 /\ clusterCap' = config.soft_capacity_limit
                 /\ clusterBuckets' = config.storage_uris
                 /\ quorumId' = quorumId + 1
                 /\ log' = Append(log, Ev("create_object_backed_cluster",
                                          NewNodes(config),
                                          config.soft_capacity_limit))
                 /\ Goto("cc_secret_nodes")
            ELSE /\ Raise("command failed")
                 /\ UNCHANGED <<nodeState, membership, clusterCap,
                                clusterBuckets, quorumId, log>>
    /\ created' = (created \/ membership' # membership)
    /\ UNCHANGED <<run, fromUnformed, tmplVars, nodeRev, clusterNet, netStatus, pending,
                   reforming, secret, i, probed, surveyVars, um, current_capacity_in_tb, current_config>>

CcSecretNodes ==
    /\ pc = "cc_secret_nodes"
    /\ update_secret("node_count", Len(NewNodes(config)), "cc_secret_disks")

CcSecretDisks ==
    /\ pc = "cc_secret_disks"
    /\ update_secret("permanent_disk_count", config.permanent_disk_count,
                     "cc_secret_capacity")

CcSecretCapacity ==
    /\ pc = "cc_secret_capacity"
    /\ update_secret("soft_capacity_limit", config.soft_capacity_limit, "cc_login")

CcLogin ==
    /\ pc = "cc_login"
    /\ QqPlain("login", "cc_tunable")

CcTunable ==
    /\ pc = "cc_tunable"
    /\ QqPlain("s3_object_client_socket_recv_timeout_ms",
               IF config.dev_environment = "true" THEN "cc_monitoring"
               ELSE "cc_flips")

CcMonitoring ==
    /\ pc = "cc_monitoring"
    /\ QqPlain("set_monitoring_conf", "cc_flips")

CcFlips ==
    /\ pc = "cc_flips"
    /\ apply_initial_floating_ips(config.floating_ips, config.netmask,
                                  "cc_flips_wait", "cc_abandon")

CcFlipsWait ==
    /\ pc = "cc_flips_wait"
    /\ WaitNetworkStatus("cc_abandon")

CcAbandon ==
    /\ pc = "cc_abandon"
    /\ QqMutate(Ev("quorum/abandon", <<>>, 0), "cc_wait")

CcWait ==
    /\ pc = "cc_wait"
    /\ wait_for_new_quorum("signal")

\* --------------------------------------------------- update_cluster_membership
\* The arguments handle_existing_cluster passes and the node list built from
\* them: ips_and_fault_domains[:node_count] + swing_ips_and_fault_domains.
UmCall(node_count, swing_node_count, ips, swing_ips) ==
    [node_count |-> node_count,
     swing_node_count |-> swing_node_count,
     swing_ips_and_fault_domains |-> swing_ips,
     new_node_membership |-> Take(ips, node_count) \o swing_ips]

\* The "Node add/remove" if/elif chain of handle_existing_cluster.  pool is
\* the str provision_swing_pool: the first branch tests its truth value, the
\* two elif branches compare it with "true" and "false".
MembershipStep(iq, iqs, pool, cfg) ==
    IF Len(iq) # cfg.node_count THEN
        IF (Truthy(pool) /\ Len(iqs) = 0) \/ (~Truthy(pool) /\ Len(iqs) > 0)
        THEN [kind |-> "raise"]
        ELSE [kind |-> "update",
              call |-> UmCall(cfg.node_count,
                              IF Truthy(pool) THEN cfg.swing_node_count ELSE 0,
                              cfg.node_ips_and_fault_domains,
                              IF Truthy(pool)
                              THEN cfg.swing_node_ip_addresses_and_fault_domains
                              ELSE <<>>)]
    ELSE IF pool = "true" /\ Len(iqs) # cfg.swing_node_count THEN
        [kind |-> "update",
         call |-> UmCall(cfg.node_count, cfg.swing_node_count,
                         cfg.node_ips_and_fault_domains,
                         cfg.swing_node_ip_addresses_and_fault_domains)]
    ELSE IF pool = "false" /\ Len(iqs) > 0 THEN
        [kind |-> "update",
         call |-> UmCall(cfg.node_count, 0, cfg.node_ips_and_fault_domains, <<>>)]
    ELSE
        [kind |-> "skip"]

\* The value update_cluster_membership writes to the node-count secret.
NodeCountToPersist(u) ==
    Len(u.new_node_membership) - Len(u.swing_ips_and_fault_domains)

\* The test that ends the membership poll.
MembershipSettled(u, node_list) ==
    Len(node_list) = u.node_count + u.swing_node_count

HeLogin ==
    /\ pc = "he_login"
    /\ QqPlain("login", "he_members")

HeMembers ==
    /\ pc = "he_members"
    /\ LET d == MembershipStep(in_quorum_nodes, in_quorum_swing_nodes,
                               provision_swing_pool, config)
       IN
       /\ IF d.kind = "raise"
          THEN Raise("node count and swing pool state")
          ELSE Goto(IF d.kind = "update" THEN "um_cmd" ELSE "he_buckets")
       /\ um' = IF d.kind = "update" THEN d.call ELSE um
    /\ UNCHANGED <<run, created, fromUnformed, tmplVars, clusterVars, secret, i, probed, surveyVars,
                   current_capacity_in_tb, current_config, log>>

UmCmd ==
    /\ pc = "um_cmd"
    /\ QqMutate(Ev("modify_object_backed_cluster_membership",
                   um.new_node_membership, 0),
                "um_wait_quorum")

UmWaitQuorum ==
    /\ pc = "um_wait_quorum"
    /\ wait_for_new_quorum("um_wait_members")

\* One pass of the get_object_backed_nodes loop.
UmWaitMembers ==
    /\ pc = "um_wait_members"
    /\ \E r \in QueryOutcomes :
           IF ~PollSurvives(r)
           THEN /\ Raise("timeout expired")
                /\ UNCHANGED log
           ELSE IF r = "ok" /\ MembershipSettled(um, membership)
           THEN /\ log' = Append(log, Ev("saw membership", membership,
                                         Len(membership)))
                /\ Goto("um_secret")
           ELSE UNCHANGED <<log, pc, failure>>
    /\ UNCHANGED <<run, created, fromUnformed, tmplVars, clusterVars, secret, i, probed, surveyVars, um,
                   current_capacity_in_tb, current_config>>

UmSecret ==
    /\ pc = "um_secret"
    /\ update_secret("node_count", NodeCountToPersist(um), "he_buckets")

\* ------------------------------------------------- handle_existing_cluster
\* Mutant: the comparison is not strict.
NeedsBuckets_NotStrict(current_bucket_count, cfg) ==
    current_bucket_count <= cfg.storage_uris

\* current_bucket_count < len(storage_uris)
NeedsBuckets(current_bucket_count, cfg) == current_bucket_count < cfg.storage_uris

\* Mutant: the comparison is not strict.
NeedsCapacity_NotStrict(current, cfg) == current <= cfg.soft_capacity_limit

\* int(current_capacity_in_tb) < int(config.soft_capacity_limit)
NeedsCapacity(current, cfg) == current < cfg.soft_capacity_limit

\* get_object_storage_uris and the comparison that follows it.
HeBuckets ==
    /\ pc = "he_buckets"
    /\ \E ok \in BOOLEAN :
           IF ~ok
           THEN /\ Raise("command failed")
                /\ UNCHANGED log
           ELSE /\ log' = Append(log, Ev("get_object_storage_uris", <<>>,
                                         clusterBuckets))
                /\ Goto(IF NeedsBuckets(clusterBuckets, config) THEN "he_add_uris"
                        ELSE "he_capacity")
    /\ UNCHANGED <<run, created, fromUnformed, tmplVars, clusterVars, secret, i, probed, surveyVars, um,
                   current_capacity_in_tb, current_config>>

HeAddUris ==
    /\ pc = "he_add_uris"
    /\ QqMutate(Ev("add_object_storage_uris", <<>>, config.storage_uris),
                "he_buckets_wait")

HeBucketsWait ==
    /\ pc = "he_buckets_wait"
    /\ wait_for_new_quorum("he_capacity")

\* The secret-bundle read and the comparison that follows it.
HeCapacity ==
    /\ pc = "he_capacity"
    /\ \E ok \in BOOLEAN :
           IF ~ok
           THEN /\ Raise("command failed")
                /\ UNCHANGED current_capacity_in_tb
           ELSE /\ current_capacity_in_tb' = secret.soft_capacity_limit
                /\ Goto(IF NeedsCapacity(current_capacity_in_tb', config)
                        THEN "he_clamp" ELSE "he_flips")
    /\ UNCHANGED <<run, created, fromUnformed, tmplVars, clusterVars, secret, i, probed, surveyVars, um,
                   current_config, log>>

HeClamp ==
    /\ pc = "he_clamp"
    /\ QqMutate(Ev("capacity_clamp_set", <<>>, config.soft_capacity_limit),
                "he_clamp_wait")

HeClampWait ==
    /\ pc = "he_clamp_wait"
    /\ wait_for_new_quorum("he_capacity_secret")

HeCapacitySecret ==
    /\ pc = "he_capacity_secret"
    /\ update_secret("soft_capacity_limit", config.soft_capacity_limit, "he_flips")

\* ------------------------------------------------ maybe_update_floating_ips
MinFlipRevision == 751

DigitSeq == <<"0", "1", "2", "3", "4", "5", "6", "7", "8", "9">>
DigitVal(c) == (CHOOSE k \in 1..10 : DigitSeq[k] = c) - 1

RECURSIVE ToInt(_)
\* int(s) for a string of digits.
ToInt(s) ==
    IF s = <<>> THEN 0
    ELSE 10 * ToInt(SubSeq(s, 1, Len(s) - 1)) + DigitVal(s[Len(s)])

\* int(qfsd_version.replace(".", "")[:3])
RevisionNumber(v) == ToInt(Take(SelectSeq(v, LAMBDA c : c # "."), 3))

\* not (not qfsd_version or RevisionNumber < 751)
FlipsSupported(v) == v # <<>> /\ RevisionNumber(v) >= MinFlipRevision

\* Mutant: the frontend networks are counted, not the floating IPs of entry 0.
FloatingIpCount_Entries(net) == Len(net)

\* floating_ip_count of the fetched config.
FloatingIpCount(net) ==
    IF Len(net) > 0 THEN Len(net[1].floating_ip_ranges) ELSE 0

\* Mutant: an empty declared list is written into entry 0 as an empty range.
ReplacedNetwork_KeepsEntry(net, new_flips) ==
    [net EXCEPT ![1].floating_ip_ranges = new_flips]

\* The config the replace path writes back.
ReplacedNetwork(net, new_flips) ==
    IF new_flips = <<>> THEN <<>>
    ELSE [net EXCEPT ![1].floating_ip_ranges = new_flips]

\* Mutant: the ranges are compared as sets.
FlipsDiffer_AsSets(current_flips, new_flips) ==
    Range(current_flips) # Range(new_flips)

\* current_flips != new_flips, two Python lists
FlipsDiffer(current_flips, new_flips) == current_flips # new_flips

\* maybe_update_floating_ips up to the choice of its path: the revision gate,
\* the network_v3_get_config query, the initial path or the replace path.
HeFlips ==
    /\ pc = "he_flips"
    /\ IF ~FlipsSupported(qfsd_version)
       THEN /\ Goto("signal")
            /\ UNCHANGED <<current_config, log>>
       ELSE \E ok \in BOOLEAN :
            IF ~ok
            THEN /\ Raise("command failed")
                 /\ UNCHANGED <<current_config, log>>
            ELSE /\ current_config' = clusterNet
                 /\ log' = Append(log, Ev("network_v3_get_config", clusterNet, 0))
                 /\ Goto(IF Len(clusterNet) = 0 \/ FloatingIpCount(clusterNet) = 0
                         THEN "mf_initial"
                         ELSE IF FlipsDiffer(clusterNet[1].floating_ip_ranges,
                                             config.floating_ips)
                         THEN "mf_put"
                         ELSE "signal")
    /\ UNCHANGED <<run, created, fromUnformed, tmplVars, clusterVars, secret, i, probed, surveyVars, um,
                   current_capacity_in_tb>>

MfInitial ==
    /\ pc = "mf_initial"
    /\ apply_initial_floating_ips(config.floating_ips, config.netmask,
                                  "mf_initial_wait", "signal")

MfInitialWait ==
    /\ pc = "mf_initial_wait"
    /\ WaitNetworkStatus("signal")

MfPut ==
    /\ pc = "mf_put"
    /\ QqMutate(Ev("put_network",
                   ReplacedNetwork(current_config, config.floating_ips), 0),
                "mf_wait")

MfWait ==
    /\ pc = "mf_wait"
    /\ wait_for_new_quorum("signal")

\* ------------------------------------------- signal_complete, shutdown_instance
SignalComplete ==
    /\ pc = "signal"
    /\ update_secret("provisioner_complete", 1, "shutdown")

ShutdownInstance ==
    /\ pc = "shutdown"
    /\ IF config.dev_environment = "true"
       THEN /\ Goto("done")
            /\ UNCHANGED log
       ELSE \E ok \in BOOLEAN :
            IF ok
            THEN /\ log' = Append(log, Ev("instance STOP", <<>>, 0))
                 /\ Goto("done")
            ELSE /\ Raise("command failed")
                 /\ UNCHANGED log
    /\ UNCHANGED <<run, created, fromUnformed, tmplVars, clusterVars, secret, i, probed, surveyVars, um,
                   current_capacity_in_tb, current_config>>

Next ==
    \/ WaitPrimary
    \/ WaitSwing
    \/ GetVersion
    \/ SurveyPrimaryNode
    \/ SurveyPrimaryReturn
    \/ SurveySwingNode
    \/ SurveySwingReturn
    \/ Decide
    \/ CreateCluster
    \/ CcSecretNodes
    \/ CcSecretDisks
    \/ CcSecretCapacity
    \/ CcLogin
    \/ CcTunable
    \/ CcMonitoring
    \/ CcFlips
    \/ CcFlipsWait
    \/ CcAbandon
    \/ CcWait
    \/ HeLogin
    \/ HeMembers
    \/ UmCmd
    \/ UmWaitQuorum
    \/ UmWaitMembers
    \/ UmSecret
    \/ HeBuckets
    \/ HeAddUris
    \/ HeBucketsWait
    \/ HeCapacity
    \/ HeClamp
    \/ HeClampWait
    \/ HeCapacitySecret
    \/ HeFlips
    \/ MfInitial
    \/ MfInitialWait
    \/ MfPut
    \/ MfWait
    \/ SignalComplete
    \/ ShutdownInstance
    \/ ClusterTakeUp
    \/ ClusterFormQuorum

Spec == Init /\ [][Next]_vars

\* ---------------------------------------------------------- runs and crashes
\* Largest number of runs of the script against one cluster.
MaxRuns == 2

\* The provisioner instance dies at any point of a run, or the run has ended,
\* and the script is started again from the top (main): every local of the
\* script is lost, the cluster and the secret store keep their state.
Restart ==
    /\ run < MaxRuns
    /\ run' = run + 1
    /\ pc' = "wait_primary"
    /\ failure' = ""
    /\ i' = 1
    /\ probed' = {}
    /\ qfsd_version' = <<>>
    /\ node_version' = [a \in Nodes |-> <<>>]
    /\ state_queries' = <<>>
    /\ sv' = EmptySurvey
    /\ in_quorum_nodes' = <<>>
    /\ out_of_quorum_nodes' = <<>>
    /\ in_quorum_swing_nodes' = <<>>
    /\ out_of_quorum_swing_nodes' = <<>>
    /\ um' = <<>>
    /\ current_capacity_in_tb' = -1
    /\ current_config' = <<>>
    /\ log' = <<>>
    /\ UNCHANGED <<created, fromUnformed, tmplVars, clusterVars, secret>>

NextRuns == Next \/ Restart

SpecRuns == Init /\ [][NextRuns]_vars

\* ================================================================ properties
Called(op) == \E k \in 1..Len(log) : log[k].op = op

\* Commands that change the cluster's state.
MutatingOps ==
    {"create_object_backed_cluster", "modify_object_backed_cluster_membership",
     "add_object_storage_uris", "capacity_clamp_set", "put_network",
     "quorum/abandon", "s3_object_client_socket_recv_timeout_ms",
     "set_monitoring_conf"}

NoMutation == \A k \in 1..Len(log) : log[k].op \notin MutatingOps
NoSecretWrite == \A k \in 1..Len(log) : log[k].op # "update_secret"

Calls ==
    SelectSeq(log, LAMBDA e : e.op \in {"call create_cluster",
                                        "call handle_existing_cluster"})

BeforeDecision ==
    pc \in {"wait_primary", "wait_swing", "get_version", "survey_primary",
            "survey_swing", "decide"}

\* Nodes that answered ACTIVE to a survey's node_state_get.
AnsweredActive == {q[1] : q \in {r \in Range(state_queries) : r[2] = "ACTIVE"}}

\* Nodes a survey must count out of quorum: the query failed or printed a
\* state that is none of ACTIVE, UNCONFIGURED, REMOVED.
AnsweredOutOfQuorum ==
    {q[1] : q \in {r \in Range(state_queries) :
                       r[2] \notin {"ACTIVE", "UNCONFIGURED", "REMOVED"}}}

\* C1: a run that passes the survey checks runs exactly one of create_cluster
\* and handle_existing_cluster: create_cluster iff no primary and no swing
\* node answered in quorum, handle_existing_cluster iff at least one did.
C1_ExactlyOneOfBootstrapReconcile ==
    /\ Len(Calls) <= 1
    /\ (~BeforeDecision /\ pc # "failed") => Len(Calls) = 1
    /\ Len(Calls) = 1 =>
           /\ Called("call create_cluster") <=> AnsweredActive = {}
           /\ Called("call handle_existing_cluster") <=> AnsweredActive # {}

\* C1 witness: reconcile chosen because only a swing node is in quorum.
C1_Witness ==
    /\ Called("call handle_existing_cluster")
    /\ in_quorum_nodes = <<>>
    /\ in_quorum_swing_nodes # <<>>

\* C4: once a survey has met an out-of-quorum node the run issues no command,
\* writes no secret, never signals completion, and ends in failure.
C4_OutOfQuorumAborts ==
    AnsweredOutOfQuorum # {} =>
        /\ log = <<>>
        /\ pending = <<>>
        /\ secret.provisioner_complete = 0
        /\ pc \in {"survey_primary", "survey_swing", "failed"}
        /\ (pc = "survey_primary" => i <= Len(cluster_node_ip_addresses) + 1)

\* C4 witness: a survey met an out-of-quorum node and the run has failed.
C4_Witness ==
    /\ pc = "failed"
    /\ failure = "out of quorum nodes"
    /\ out_of_quorum_swing_nodes # <<>>

\* ------------------------------------------------------------------ survey
\* The for loop of the running survey_node_state call has ended: sv holds
\* what the call is about to return for SurveyedAddresses.
SurveyFinished ==
    \/ pc = "survey_primary" /\ i > Len(cluster_node_ip_addresses)
    \/ pc = "survey_swing" /\ i > Len(swing_node_ip_addresses)

SurveyedAddresses ==
    IF pc = "survey_primary" THEN cluster_node_ip_addresses
    ELSE swing_node_ip_addresses

\* What node_state_get answered for address a ("error" if it failed).
AnswerOf(a) == (CHOOSE q \in Range(state_queries) : q[1] = a)[2]

InList(a, list) == \E k \in 1..Len(list) : list[k] = a

\* C5 as stated: every surveyed address is in exactly one of the two
\* returned lists, whatever its status.
C5_ExhaustivePartition ==
    SurveyFinished =>
        \A k \in 1..Len(SurveyedAddresses) :
            LET a == SurveyedAddresses[k] IN
            InList(a, SurveyResult(sv)[1]) # InList(a, SurveyResult(sv)[2])

\* C5 amended: the two returned lists are disjoint and without repetition;
\* an address is in the in-quorum list iff its node answered ACTIVE, in the
\* out-of-quorum list iff its query failed or answered an unrecognized state,
\* and in neither iff it answered UNCONFIGURED or REMOVED.
C5_DisjointClassification ==
    SurveyFinished =>
        LET in == SurveyResult(sv)[1]
            out == SurveyResult(sv)[2]
        IN
        /\ Len(in) = Cardinality(Range(in))
        /\ Len(out) = Cardinality(Range(out))
        /\ Range(in) \cap Range(out) = {}
        /\ Range(in) \cup Range(out) \subseteq Range(SurveyedAddresses)
        /\ \A k \in 1..Len(SurveyedAddresses) :
               LET a == SurveyedAddresses[k] IN
               /\ InList(a, in) <=> AnswerOf(a) = "ACTIVE"
               /\ InList(a, out) <=>
                      AnswerOf(a) \notin {"ACTIVE", "UNCONFIGURED", "REMOVED"}
               /\ (~InList(a, in) /\ ~InList(a, out)) <=>
                      AnswerOf(a) \in {"UNCONFIGURED", "REMOVED"}

\* C5 witness: a finished survey with one node in quorum and one REMOVED node
\* that is in neither returned list.
C5_Witness ==
    /\ SurveyFinished
    /\ SurveyResult(sv)[1] # <<>>
    /\ \E k \in 1..Len(SurveyedAddresses) :
           /\ AnswerOf(SurveyedAddresses[k]) = "REMOVED"
           /\ ~InList(SurveyedAddresses[k], SurveyResult(sv)[1])
           /\ ~InList(SurveyedAddresses[k], SurveyResult(sv)[2])

\* Two declared nodes in quorum run different revisions.
MixedRevisionsInQuorum ==
    \E a, b \in Range(cluster_node_ip_addresses \o swing_node_ip_addresses) :
        /\ nodeState[a] = "ACTIVE"
        /\ nodeState[b] = "ACTIVE"
        /\ nodeRev[a] # nodeRev[b]

\* C6: with two in-quorum nodes at different revisions the run issues no
\* command and writes no secret; whenever create_cluster or
\* handle_existing_cluster has started, all surveyed in-quorum nodes run the
\* revision of the clustering node.
C6_NoMixedRevisionConvergence ==
    /\ MixedRevisionsInQuorum =>
           /\ log = <<>>
           /\ pending = <<>>
           /\ pc \in {"wait_primary", "wait_swing", "get_version",
                      "survey_primary", "survey_swing", "failed"}
    /\ (log # <<>> \/ pc = "decide") =>
           \A a \in Range(in_quorum_nodes \o in_quorum_swing_nodes) :
               nodeRev[a] = nodeRev[clustering_node_ip_address]

\* C6 witness: the survey raised on a wrong revision among in-quorum nodes.
C6_Witness ==
    /\ MixedRevisionsInQuorum
    /\ pc = "failed"
    /\ failure = "wrong qfsd revision"

\* -------------------------------------------------------------- membership
Reconciling == Called("call handle_existing_cluster")

ModifyOp == "modify_object_backed_cluster_membership"

\* The swing pool is requested / the declared targets of section 4.4 (a).
SwingRequested == provision_swing_pool = "true"
TargetPrimary == config.node_count
TargetSwing == IF SwingRequested THEN config.swing_node_count ELSE 0

PrimaryMismatch == Len(in_quorum_nodes) # config.node_count

SwingStateMismatch ==
    \/ SwingRequested /\ Len(in_quorum_swing_nodes) = 0
    \/ ~SwingRequested /\ Len(in_quorum_swing_nodes) > 0

\* C2 as stated: a reconcile run with a primary-count mismatch and a
\* swing-state mismatch aborts before any mutation and any secret write.
C2_RefusesCombinedChange ==
    (Reconciling /\ PrimaryMismatch /\ SwingStateMismatch) =>
        /\ NoMutation
        /\ NoSecretWrite
        /\ pc \in {"he_login", "he_members", "failed"}

\* C3 as stated: with the swing pool disabled before and after, a primary
\* count that differs from node_count N (N addresses declared) is converged by
\* one membership command naming the first N primary addresses; the run does
\* not refuse, and it persists N only after a membership of length N was seen.
C3_ScalesPrimaryWithoutSwing ==
    (/\ Reconciling
     /\ ~SwingRequested
     /\ in_quorum_swing_nodes = <<>>
     /\ PrimaryMismatch
     /\ config.node_count <= Len(config.node_ips_and_fault_domains)) =>
        /\ failure # "node count and swing pool state"
        /\ Len(SelectSeq(log, LAMBDA e : e.op = ModifyOp)) <= 1
        /\ \A k \in 1..Len(log) :
               /\ log[k].op = ModifyOp =>
                      log[k].nodes = Take(config.node_ips_and_fault_domains,
                                          config.node_count)
               /\ (log[k].op = "update_secret" /\ log[k].nodes = <<"node_count">>) =>
                      /\ log[k].val = config.node_count
                      /\ \E j \in 1..(k - 1) :
                             /\ log[j].op = "saw membership"
                             /\ log[j].val = config.node_count

\* C9 as stated: in reconcile the node-count secret is written only after the
\* membership command, then an ACTIVE answer, then a membership answer of
\* length targetPrimary + targetSwing; the value counts primary nodes only.
C9_NodeCountSecretAfterSettle ==
    Reconciling =>
        \A k \in 1..Len(log) :
            (log[k].op = "update_secret" /\ log[k].nodes = <<"node_count">>) =>
                \E a, b, c \in 1..(k - 1) :
                    /\ a < b
                    /\ b < c
                    /\ log[a].op = ModifyOp
                    /\ log[b].op = "saw ACTIVE"
                    /\ log[c].op = "saw membership"
                    /\ log[c].val = TargetPrimary + TargetSwing
                    /\ log[k].val =
                           Len(SelectSeq(log[a].nodes,
                                         LAMBDA n : n \in Range(cluster_node_ip_addresses)))

\* C10 as stated: every membership command names primary addresses[:node_count]
\* followed by the declared swing addresses iff the swing pool is requested,
\* and the wait that follows targets node_count + the swing target.
C10_SwingOnlyWhenRequested ==
    Reconciling =>
        /\ \A k \in 1..Len(log) :
               log[k].op = ModifyOp =>
                   log[k].nodes =
                       Take(config.node_ips_and_fault_domains, config.node_count)
                       \o (IF SwingRequested
                           THEN config.swing_node_ip_addresses_and_fault_domains
                           ELSE <<>>)
        /\ um # <<>> =>
               um.node_count + um.swing_node_count = TargetPrimary + TargetSwing

\* ---------------------------------------------------------------- capacity
CapacityRead == current_capacity_in_tb # -1
ClampIssued == Called("capacity_clamp_set")

\* C7 as stated: in reconcile the capacity in the secret store never exceeds
\* the capacity clamp in effect on the cluster.
C7_SecretNeverAheadOfCluster ==
    Reconciling => secret.soft_capacity_limit <= clusterCap

\* C8: capacity_clamp_set is issued, with the declared limit, iff the declared
\* limit strictly exceeds the capacity read from the secret store; otherwise
\* no capacity command is issued and the capacity secret keeps its value.
C8_CapacityTriggersIffStrictlyGreater ==
    /\ \A k \in 1..Len(log) :
           log[k].op = "capacity_clamp_set" =>
               /\ log[k].val = config.soft_capacity_limit
               /\ CapacityRead
               /\ current_capacity_in_tb < config.soft_capacity_limit
    /\ (/\ CapacityRead
        /\ current_capacity_in_tb < config.soft_capacity_limit
        /\ pc \notin {"he_clamp", "failed"}) => ClampIssued
    /\ (CapacityRead /\ current_capacity_in_tb >= config.soft_capacity_limit) =>
           /\ ~ClampIssued
           /\ NoSecretWrite
                  \/ \A k \in 1..Len(log) :
                         log[k].op = "update_secret" =>
                             log[k].nodes # <<"soft_capacity_limit">>
           /\ secret.soft_capacity_limit = current_capacity_in_tb

\* C8 witness: the declared limit exceeded the stored one and the clamp was set.
C8_Witness ==
    /\ CapacityRead
    /\ current_capacity_in_tb < config.soft_capacity_limit
    /\ ClampIssued
    /\ pc = "he_flips"

\* ---------------------------------------------------------------- bootstrap
\* Position in the log of the first entry for command `op`, 0 if there is none.
FirstIndex(op) ==
    IF Called(op) THEN CHOOSE k \in 1..Len(log) :
                           /\ log[k].op = op
                           /\ \A j \in 1..(k - 1) : log[j].op # op
    ELSE 0

\* Position in the log of the first write of secret `name`, 0 if there is none.
FirstSecretWrite(name) ==
    IF \E k \in 1..Len(log) : log[k].op = "update_secret" /\ log[k].nodes = <<name>>
    THEN CHOOSE k \in 1..Len(log) :
             /\ log[k].op = "update_secret" /\ log[k].nodes = <<name>>
             /\ \A j \in 1..(k - 1) :
                    ~(log[j].op = "update_secret" /\ log[j].nodes = <<name>>)
    ELSE 0

TunableOp == "s3_object_client_socket_recv_timeout_ms"

\* The end-to-end bootstrap scenario: every declared primary node answered
\* UNCONFIGURED, the swing pool is disabled, node_count is the number of
\* declared primary addresses, and main has called create_cluster.
BootstrapScenario ==
    /\ Called("call create_cluster")
    /\ provision_swing_pool = "false"
    /\ swing_node_ip_addresses = <<>>
    /\ config.node_count = Len(cluster_node_ip_addresses)
    /\ \A k \in 1..Len(state_queries) : state_queries[k][2] = "UNCONFIGURED"

\* create_cluster has returned to main.
BootstrapReturned ==
    Called("call create_cluster") /\ pc \in {"signal", "shutdown", "done"}

\* C11 as stated: in the bootstrap scenario the node count is persisted only
\* after create-cluster, then the tunable, then an observed ACTIVE quorum.
C11_PersistsAfterQuorumWait ==
    (BootstrapScenario /\ FirstSecretWrite("node_count") > 0) =>
        /\ 0 < FirstIndex("create_object_backed_cluster")
        /\ FirstIndex("create_object_backed_cluster") < FirstIndex(TunableOp)
        /\ FirstIndex(TunableOp) < FirstIndex("saw ACTIVE")
        /\ FirstIndex("saw ACTIVE") < FirstSecretWrite("node_count")

\* C11 amended: in the bootstrap scenario create-cluster names exactly the N
\* declared addresses; the node count N is persisted right after it, before
\* the tunable is set; the quorum restart follows the tunable; and bootstrap
\* returns only after ACTIVE was observed following the quorum restart.
C11_BootstrapOrder ==
    BootstrapScenario =>
        /\ \A k \in 1..Len(log) :
               /\ log[k].op = "create_object_backed_cluster" =>
                      log[k].nodes = cluster_node_ip_addresses
               /\ (log[k].op = "update_secret" /\ log[k].nodes = <<"node_count">>) =>
                      /\ log[k].val = Len(cluster_node_ip_addresses)
                      /\ k = FirstIndex("create_object_backed_cluster") + 1
        /\ Called(TunableOp) =>
               /\ 0 < FirstSecretWrite("node_count")
               /\ FirstSecretWrite("node_count") < FirstIndex(TunableOp)
        /\ Called("quorum/abandon") =>
               FirstIndex(TunableOp) < FirstIndex("quorum/abandon")
        /\ Called("saw ACTIVE") =>
               /\ 0 < FirstIndex("quorum/abandon")
               /\ FirstIndex("quorum/abandon") < FirstIndex("saw ACTIVE")
        /\ BootstrapReturned =>
               /\ Called("create_object_backed_cluster")
               /\ Called(TunableOp)
               /\ Called("saw ACTIVE")
               /\ secret.node_count = Len(cluster_node_ip_addresses)

\* C11 witness: the bootstrap scenario ran to its end.
C11_Witness ==
    /\ BootstrapScenario
    /\ BootstrapReturned
    /\ Called("saw ACTIVE")
    /\ secret.node_count = Len(cluster_node_ip_addresses)

\* ------------------------------------------------------------ runs, re-entry
\* This step issues the create_object_backed_cluster command.
IssuesCreate ==
    /\ Len(log') = Len(log) + 1
    /\ log'[Len(log')].op = "create_object_backed_cluster"

\* C12: over every sequence of runs, crashes included, the create-cluster
\* command is issued only by a run that called create_cluster, which a run
\* does only if its surveys found no node in quorum; a run that found a node
\* in quorum never issues it; and once a run's create-cluster has formed a
\* cluster no later step of any run issues create-cluster again.
C12_NoSecondBootstrap ==
    /\ [](Called("call create_cluster") => AnsweredActive = {})
    /\ [](Called("create_object_backed_cluster") => Called("call create_cluster"))
    /\ [](Called("call handle_existing_cluster") =>
              ~Called("create_object_backed_cluster"))
    /\ [][IssuesCreate => ~created]_vars

\* C12 witness: the first run crashed after create-cluster formed the cluster
\* and before the disk-count secret was written; the second run reconciles.
C12_Witness ==
    /\ run = 2
    /\ created
    /\ Called("call handle_existing_cluster")
    /\ membership # <<>>
    /\ secret.permanent_disk_count = 0

\* ------------------------------------------------------- floating-IP gate
\* The revision string with every non-digit character stripped, as an integer.
FullRevisionNumber(v) == ToInt(SelectSeq(v, LAMBDA c : c \in Digits))

\* handle_existing_cluster has gone past the revision gate of
\* maybe_update_floating_ips without raising.
PastFlipGate ==
    /\ Reconciling
    /\ pc \in {"mf_initial", "mf_initial_wait", "mf_put", "mf_wait", "signal",
               "shutdown", "done"}

\* C13 as stated: floating-IP convergence is attempted (the network config is
\* queried) iff the revision with its non-digit characters stripped is an
\* integer >= 751; otherwise the network is neither queried nor changed.
C13_GateAt751 ==
    PastFlipGate =>
        /\ Called("network_v3_get_config") <=>
               (qfsd_version # <<>>
                /\ FullRevisionNumber(qfsd_version) >= MinFlipRevision)
        /\ ~Called("network_v3_get_config") => ~Called("put_network")

\* ----------------------------------------------------- floating-IP changes
\* maybe_update_floating_ips has returned to handle_existing_cluster.
FlipsReturned == Reconciling /\ pc \in {"signal", "shutdown", "done"}

\* The config fetched by maybe_update_floating_ips has floating IPs on
\* frontend network 0: the replace path applies.
OnReplacePath ==
    /\ Called("network_v3_get_config")
    /\ FloatingIpCount(current_config) > 0

PutCount == Len(SelectSeq(log, LAMBDA e : e.op = "put_network"))

\* C14: on the replace path no put-config is issued while the fetched range
\* equals the declared list element by element; if they differ (a different
\* order included) exactly one put-config is issued, and the function returns
\* only after ACTIVE was observed following it.
C14_OrderedListEquality ==
    (Reconciling /\ OnReplacePath) =>
        /\ current_config[1].floating_ip_ranges = config.floating_ips =>
               PutCount = 0
        /\ PutCount <= 1
        /\ FlipsReturned =>
               /\ current_config[1].floating_ip_ranges # config.floating_ips =>
                      PutCount = 1
               /\ PutCount = 1 =>
                      FirstIndex("put_network") < Len(log)
                      /\ \E k \in (FirstIndex("put_network") + 1)..Len(log) :
                             log[k].op = "saw ACTIVE"

\* C14 witness: the declared list holds the fetched addresses in another
\* order, and the replace path has put the config and returned.
C14_Witness ==
    /\ Reconciling /\ OnReplacePath /\ FlipsReturned
    /\ current_config[1].floating_ip_ranges # config.floating_ips
    /\ Range(current_config[1].floating_ip_ranges) = Range(config.floating_ips)
    /\ PutCount = 1

\* The network configs submitted so far (initial path and replace path).
SubmittedConfigs == {e.nodes : e \in {x \in Range(log) : x.op = "put_network"}}

\* The replace path applies and the declared floating-IP list is empty.
ClearsFloatingIps ==
    Reconciling /\ OnReplacePath /\ config.floating_ips = <<>>

BucketsRead == Called("get_object_storage_uris")

\* current_bucket_count: what get_object_storage_uris answered.
current_bucket_count == log[FirstIndex("get_object_storage_uris")].val

AddUrisOp == "add_object_storage_uris"

\* Every command and observation of the script; none removes a bucket.
ScriptOps ==
    MutatingOps \cup
    {"call create_cluster", "call handle_existing_cluster", "login",
     "update_secret", "saw ACTIVE", "saw membership", "saw floating_addresses",
     "get_object_storage_uris", "network_v3_get_config", "instance STOP"}

\* C16: reconcile issues add_object_storage_uris, with the declared URIs, iff
\* the configured bucket count it read is strictly less than the declared
\* count, and goes on only after ACTIVE was observed following it; otherwise
\* no bucket command is issued; no command of any run removes a bucket, and
\* the configured count never drops below the count that was read.
C16_BucketsOnlyAdded ==
    /\ \A k \in 1..Len(log) :
           /\ log[k].op \in ScriptOps
           /\ log[k].op = AddUrisOp =>
                  /\ Reconciling
                  /\ BucketsRead
                  /\ current_bucket_count < config.storage_uris
                  /\ log[k].val = config.storage_uris
    /\ Len(SelectSeq(log, LAMBDA e : e.op = AddUrisOp)) <= 1
    /\ (BucketsRead /\ current_bucket_count < config.storage_uris
        /\ pc \notin {"he_add_uris", "failed"}) => Called(AddUrisOp)
    /\ (BucketsRead /\ current_bucket_count >= config.storage_uris) =>
           ~Called(AddUrisOp)
    /\ (Called(AddUrisOp) /\ pc \notin {"he_buckets_wait", "failed"}) =>
           \E k \in (FirstIndex(AddUrisOp) + 1)..Len(log) : log[k].op = "saw ACTIVE"
    /\ BucketsRead => clusterBuckets >= current_bucket_count

\* C16 witness: fewer buckets configured than declared, the add command was
\* issued, the quorum wait ended and reconcile went on.
C16_Witness ==
    /\ BucketsRead
    /\ current_bucket_count < config.storage_uris
    /\ Called(AddUrisOp)
    /\ pc = "he_capacity"

\* -------------------------------------------------------------------- polls
\* The script is inside one of its wait loops.
Polling ==
    pc \in {"cc_flips_wait", "cc_wait", "um_wait_quorum", "um_wait_members",
            "he_buckets_wait", "he_clamp_wait", "mf_initial_wait", "mf_wait"}

\* C17 as stated: no pass of a wait loop ends the run: whatever way the
\* loop's query fails, the per-call timeout included, the loop retries.
C17_PollFailuresNeverFatal == [][Polling => pc' # "failed"]_vars

\* ---------------------------------------------------------------- readiness
\* Addresses whose quorum status a survey of this run has queried.
SurveyedSoFar == {state_queries[k][1] : k \in 1..Len(state_queries)}

\* C18 as stated: every address a survey has queried, primary or swing, was
\* probed ready earlier in the run, and while a command or secret write has
\* been issued every declared address that was surveyed had been probed.
C18_ProbedBeforeSurveyed ==
    /\ SurveyedSoFar \subseteq probed
    /\ \A a \in Nodes : node_version[a] # <<>> => a \in probed
    /\ log # <<>> =>
           Range(cluster_node_ip_addresses) \subseteq probed

\* --------------------------------------------------------------- completion
\* Position in the log of the write of the completion secret, 0 if none.
CompleteIdx == FirstSecretWrite("provisioner_complete")

\* Commands the script follows with a wait loop, and what ends such a loop.
WaitedOps ==
    {"modify_object_backed_cluster_membership", "add_object_storage_uris",
     "capacity_clamp_set", "put_network", "quorum/abandon"}
SettleMarkers == {"saw ACTIVE", "saw floating_addresses"}

\* C19: the completion secret is set only after create_cluster or
\* handle_existing_cluster was called and returned without error, every wait
\* loop it entered having ended; a run that aborted there never sets it; and
\* the stop-instance call comes only after the completion secret was written.
C19_CompletionOnlyAfterConvergence ==
    /\ secret.provisioner_complete = 1 <=> CompleteIdx > 0
    /\ CompleteIdx > 0 =>
           /\ Called("call create_cluster") \/ Called("call handle_existing_cluster")
           /\ pc \in {"shutdown", "done", "failed"}
           /\ pc # "failed" => failure = ""
           /\ pc = "failed" => CompleteIdx = Len(log)
           /\ \A k \in 1..(CompleteIdx - 1) :
                  log[k].op \in WaitedOps =>
                      \E j \in (k + 1)..(CompleteIdx - 1) :
                          log[j].op \in SettleMarkers
    /\ pc \in {"signal", "shutdown", "done"} => failure = ""
    /\ \A k \in 1..Len(log) :
           log[k].op = "instance STOP" => (0 < CompleteIdx /\ CompleteIdx < k)

\* C19 witness: a reconcile run that changed the membership has signalled
\* completion and stopped the instance.
C19_Witness ==
    /\ pc = "done"
    /\ secret.provisioner_complete = 1
    /\ Called("modify_object_backed_cluster_membership")
    /\ Called("instance STOP")

\* ------------------------------------------------------- order of reconcile
\* The dimension a log entry of handle_existing_cluster belongs to: 0 login,
\* 1 membership, 2 buckets, 3 capacity, 4 floating IPs, 5 what main does
\* after reconcile; -1 for the quorum marker, which belongs to the command
\* it follows.
Dimension(e) ==
    IF e.op \in {"call handle_existing_cluster", "login"} THEN 0
    ELSE IF e.op \in {ModifyOp, "saw membership"} THEN 1
    ELSE IF e.op = "update_secret" /\ e.nodes = <<"node_count">> THEN 1
    ELSE IF e.op \in {"get_object_storage_uris", AddUrisOp} THEN 2
    ELSE IF e.op = "capacity_clamp_set" THEN 3
    ELSE IF e.op = "update_secret" /\ e.nodes = <<"soft_capacity_limit">> THEN 3
    ELSE IF e.op \in {"network_v3_get_config", "put_network",
                      "saw floating_addresses"} THEN 4
    ELSE IF e.op = "saw ACTIVE" THEN -1
    ELSE 5

\* C20: reconcile logs in first, then drives membership, buckets, capacity
\* and floating IPs in this order; every mutating command is directly
\* followed by the end of its settle wait before anything else is issued; and
\* at most one membership command is issued.
C20_ReconcileOrder ==
    Reconciling =>
        /\ Len(log) >= 2 => log[2].op = "login"
        /\ \A j, k \in 1..Len(log) :
               (j < k /\ Dimension(log[j]) >= 0 /\ Dimension(log[k]) >= 0) =>
                   Dimension(log[j]) <= Dimension(log[k])
        /\ \A k \in 1..(Len(log) - 1) :
               log[k].op \in WaitedOps => log[k + 1].op \in SettleMarkers
        /\ Len(SelectSeq(log, LAMBDA e : e.op = ModifyOp)) <= 1

\* C20 witness: a reconcile run that issued a command in each of membership,
\* buckets, capacity and floating IPs, and returned.
C20_Witness ==
    /\ Reconciling
    /\ pc = "signal"
    /\ Called(ModifyOp)
    /\ Called(AddUrisOp)
    /\ Called("capacity_clamp_set")
    /\ Called("put_network")

\* ---------------------------------------------------- end of the bootstrap
AbandonOp == "quorum/abandon"

\* The step in which the last wait_for_new_quorum of create_cluster returns.
BootstrapWaitReturns == pc = "cc_wait" /\ pc' = "signal"

\* The cluster has not yet formed the quorum that follows the abandon command.
AbandonOutstanding ==
    \/ \E k \in 1..Len(pending) : pending[k].op = AbandonOp
    \/ \E k \in 1..Len(reforming) : reforming[k].op = AbandonOp

\* C21 as stated: in a bootstrap with node_count > 0 the quorum-abandon
\* command comes after create-cluster, the tunable and the floating-IP
\* application and is the last state-changing command; bootstrap returns only
\* after it, and only when the ACTIVE it observed is that of a quorum formed
\* after the abandon.
C21_AbandonWaitedOut ==
    /\ []((Called("call create_cluster") /\ Called(AbandonOp)) =>
              /\ 0 < FirstIndex("create_object_backed_cluster")
              /\ FirstIndex("create_object_backed_cluster") < FirstIndex(TunableOp)
              /\ FirstIndex(TunableOp) < FirstIndex(AbandonOp)
              /\ \A k \in 1..Len(log) :
                     log[k].op \in MutatingOps \ {AbandonOp} =>
                         k < FirstIndex(AbandonOp)
              /\ config.floating_ips # <<>> => Called("put_network"))
    /\ []((BootstrapReturned /\ config.node_count > 0) =>
              /\ Called(AbandonOp)
              /\ \E k \in (FirstIndex(AbandonOp) + 1)..Len(log) :
                     log[k].op = "saw ACTIVE")
    /\ [][BootstrapWaitReturns => ~AbandonOutstanding]_vars

\* ------------------------------------------------------ floating-IP paths
\* The fetched config has no frontend network, or entry 0 has no floating IPs.
InitialPathApplies ==
    /\ Called("network_v3_get_config")
    /\ Len(current_config) = 0 \/ current_config[1].floating_ip_ranges = <<>>

\* The fetched config has floating IPs on entry 0.
ReplacePathApplies ==
    /\ Called("network_v3_get_config")
    /\ Len(current_config) > 0
    /\ current_config[1].floating_ip_ranges # <<>>

\* Log entries that follow the first put of a network config.
AfterPut ==
    IF Called("put_network")
    THEN {log[k] : k \in (FirstIndex("put_network") + 1)..Len(log)}
    ELSE {}

\* C22: when no frontend network exists or entry 0 has no floating IPs, a
\* non-empty declared list is submitted as the single entry (1, "default",
\* declared list, netmask) and the engine returns only after network status
\* reported floating addresses; when entry 0 has floating IPs the replace
\* path is used and a put is followed by the quorum wait; at most one config
\* is submitted per invocation.
C22_FloatingIpPathChoice ==
    Reconciling =>
        /\ PutCount <= 1
        /\ InitialPathApplies =>
               /\ config.floating_ips = <<>> => PutCount = 0
               /\ \A net \in SubmittedConfigs :
                      net = <<NetEntry(1, "default", config.floating_ips,
                                       config.netmask)>>
               /\ \A e \in AfterPut : e.op # "saw ACTIVE"
               /\ (FlipsReturned /\ config.floating_ips # <<>>) =>
                      /\ PutCount = 1
                      /\ \E e \in AfterPut : e.op = "saw floating_addresses"
        /\ ReplacePathApplies =>
               /\ ~Called("saw floating_addresses")
               /\ (FlipsReturned /\ PutCount = 1) =>
                      \E e \in AfterPut : e.op = "saw ACTIVE"

\* C22 witness: entry 0 existed without floating IPs, the declared list was
\* applied through the initial path, and network status reported addresses.
C22_Witness ==
    /\ Reconciling
    /\ InitialPathApplies
    /\ Len(current_config) > 0
    /\ FlipsReturned
    /\ PutCount = 1
    /\ Called("saw floating_addresses")

\* ------------------------------------------------------------ re-execution
\* The floating-IP range of entry 0 of the fetched config, empty if none.
ExistingRange ==
    IF Len(current_config) > 0 THEN current_config[1].floating_ip_ranges
    ELSE <<>>

\* Everything the reconcile run has read so far equals its target.
ConvergedSoFar ==
    /\ Reconciling
    /\ Len(in_quorum_nodes) = TargetPrimary
    /\ Len(in_quorum_swing_nodes) = TargetSwing
    /\ BucketsRead => current_bucket_count >= config.storage_uris
    /\ CapacityRead => current_capacity_in_tb >= config.soft_capacity_limit
    /\ Called("network_v3_get_config") => ExistingRange = config.floating_ips

\* C23: a reconcile run that finds the primary and swing counts at their
\* targets, at least the declared number of buckets, a stored capacity of at
\* least the declared limit and the declared floating-IP range issues no
\* state-changing command and writes no secret but the completion flag.
C23_ConvergedRunIsNoOp ==
    ConvergedSoFar =>
        /\ NoMutation
        /\ pending = <<>>
        /\ \A k \in 1..Len(log) :
               log[k].op = "update_secret" =>
                   log[k].nodes = <<"provisioner_complete">>

\* C23 witness: a run against a converged cluster with floating IPs ran to
\* its end.
C23_Witness ==
    /\ ConvergedSoFar
    /\ pc = "done"
    /\ Called("network_v3_get_config")
    /\ ExistingRange # <<>>
    /\ secret.provisioner_complete = 1

\* ------------------------------------------------------------- termination
\* A step of the script that moves it forward without raising: the statement
\* it is at succeeds, or the query of its wait loop shows the marker.
Progress ==
    /\ Next
    /\ pc' # "failed"
    /\ <<pc, i>>' # <<pc, i>>

\* A statement outside the wait loops runs to its end: it returns or raises.
Statement ==
    /\ Next
    /\ ~Polling
    /\ <<pc, i>>' # <<pc, i>>

\* The script always runs its next statement; a probe or a wait-loop query
\* whose marker stays reported eventually shows it; the cluster takes up
\* every accepted command and forms the quorum that follows it.
LiveSpec ==
    /\ Init
    /\ [][Next]_vars
    /\ WF_vars(Statement)
    /\ WF_vars(Progress)
    /\ WF_vars(ClusterTakeUp)
    /\ WF_vars(ClusterFormQuorum)

\* The run has raised, or it has signalled completion.
RunEnded == pc = "failed" \/ secret.provisioner_complete = 1

\* The terminal markers of the wait loops.
TerminalMarkers == SettleMarkers \cup {"saw membership"}

\* The cluster has applied every command it accepted and the clustering node
\* answers ACTIVE: it reports the membership and the network config it was
\* last asked for.
ReportsSettled ==
    /\ pending = <<>>
    /\ reforming = <<>>
    /\ NodeStateOutput(clustering_node_ip_address) = "ACTIVE"

\* C24 as stated: if the cluster eventually and permanently reports quorum
\* ACTIVE with what it was asked for in effect, a run in which nothing raises
\* eventually signals completion, every wait loop having terminated; and a
\* wait loop returns only in a step whose query showed the loop's terminal
\* marker.
C24_EventualCompletion ==
    /\ <>[]ReportsSettled => <>RunEnded
    /\ [][(Polling /\ pc' \notin {pc, "failed"}) =>
              /\ Len(log') = Len(log) + 1
              /\ log'[Len(log')].op \in TerminalMarkers]_vars


\* ------------------------------------------------------------------- C25
\* The status queries of the surveys that did not answer: a non-zero exit
\* or the per-call timeout.
FailedQueries ==
    {k \in 1..Len(state_queries) : state_queries[k][2] \in {"error", "timeout"}}

\* The addresses classified out of quorum, in the survey under way or in a
\* returned list.
OutOfQuorumSoFar ==
    Range(sv.out_of_quorum_nodes) \cup Range(out_of_quorum_nodes)
        \cup Range(out_of_quorum_swing_nodes)

\* C25: a node whose status query fails (non-zero exit or timeout) is put in
\* the out-of-quorum list and the survey goes on to the next node instead of
\* aborting; no node's status is queried twice in a run's surveys.
C25_FailedQueryIsOutOfQuorum ==
    /\ \A k \in FailedQueries :
           /\ state_queries[k][1] \in OutOfQuorumSoFar
           /\ failure # "status query timeout"
    /\ \A k, l \in 1..Len(state_queries) :
           state_queries[k][1] = state_queries[l][1] => k = l


\* ------------------------------------------------------------------- C26
\* A frontend-network entry without its floating-IP range: id, name, netmask.
OtherFields(entry) == <<entry.id, entry.name, entry.netmask>>

\* C26: every config the replace path submits has every frontend-network
\* entry other than index 0 as it was fetched, and, when entry 0 is still
\* there, the id, name and netmask of entry 0 as they were fetched.
C26_OnlyEntryZeroTouched ==
    (Reconciling /\ OnReplacePath) =>
        \A net \in SubmittedConfigs :
            /\ \A k \in 2..Len(current_config) :
                   k <= Len(net) /\ net[k] = current_config[k]
            /\ net # <<>> => OtherFields(net[1]) = OtherFields(current_config[1])


\* ------------------------------------------------------------------- C27
\* The number of primary nodes in the cluster's membership.
PrimaryMembers ==
    Len(SelectSeq(membership, LAMBDA a : a \in Range(cluster_node_ip_addresses)))

\* signal_complete has written the completion secret in this step.
SignalsCompletion == pc = "signal" /\ pc' = "shutdown"

\* C27: in any sequence of runs that started on an unformed cluster, with
\* crashes between steps, whenever a run signals completion the node-count
\* secret equals the number of primary nodes in the cluster's membership.
C27_NodeCountSecretRepaired ==
    [][(fromUnformed /\ SignalsCompletion) =>
           secret.node_count = PrimaryMembers]_vars


\* ------------------------------------------------------------------- C28
\* The membership length the poll of update_cluster_membership waits for.
WaitTarget == um.node_count + um.swing_node_count

\* C28: once a membership-replacement command was issued, the length its
\* poll waits for equals the number of addresses in the node list the
\* command submitted.
C28_WaitTargetsRequestedList ==
    (Reconciling /\ Called(ModifyOp)) =>
        WaitTarget = Len(log[FirstIndex(ModifyOp)].nodes)

====
